---------------------------- MODULE Spec2Model ----------------------------
(***************************************************************************)
(* A model of GitHubGraphQlQuery.request (src/github_activity/graphql.py): *)
(* the cursor-paginated search loop, the aggregation of each page's nodes  *)
(* into self.issues_and_or_prs, and the final DataFrame with its derived   *)
(* columns.  The remote GraphQL endpoint is the environment: every POST    *)
(* is answered by a nondeterministically chosen response.                  *)
(*                                                                         *)
(* Python values that may be None, and attributes or locals that may not   *)
(* be bound yet, are sequences of length at most one: <<>> is None (or     *)
(* unbound), <<v>> is the value v.                                         *)
(***************************************************************************)
EXTENDS Integers, Sequences, FiniteSets, TLC

\* ------------------------------------------------------------ bounds
\* Largest n_pages a caller passes to request().
MaxNPages == 3
\* Largest n_per_page a caller passes to request().
MaxPerPage == 2
\* Largest issueCount the remote reports.
MaxCount == 5
\* Largest number of records normalized at once in SpecNorm.
MaxRows == 2

\* ------------------------------------------------------------ values
None == <<>>
Some(v) == <<v>>

\* The search string given to the constructor (self.query).
SearchQuery == "repo:ORG/REPO"

\* The cursor tokens the remote hands out: the token of page i.
Tokens == <<"Y3Vyc29yOjE=", "Y3Vyc29yOjI=">>
TokenOf(i) == Tokens[(i % 2) + 1]

\* The logins of the authors of the served records.
Logins == <<"alice", "bob">>

\* A record's url as the remote returns it, as the sequence of its pieces;
\* "/" is the separator character.
UrlOf(k) ==
  <<"https:", "/", "/", "github.com", "/", "ORG", "/",
    IF k % 2 = 0 THEN "REPO" ELSE "REPO2", "/", "issues", "/", ToString(k)>>

\* The k-th node the remote serves in a run: every third author is a
\* deleted account (author: null).
Node(k) ==
  [id     |-> k,
   author |-> IF k % 3 = 0 THEN None ELSE Some([login |-> Logins[(k % 2) + 1]]),
   url    |-> UrlOf(k)]

\* ------------------------------------------------------------ state
VARIABLES
  pc,                 \* where request() is: "idle", "loop", "finalize", "done"
  display_progress,   \* self.display_progress
  args,               \* the arguments of the call: [n_pages, n_per_page]
  n_pages,            \* the local n_pages (reassigned at line 145)
  ii,                 \* the loop variable
  pageInfo,           \* the local pageInfo: None until the first page is parsed
  prog,               \* the local prog (the IntProgress widget), None until made
  issues_and_or_prs,  \* self.issues_and_or_prs
  data,               \* self.data: None while the attribute is unset
  last_request,       \* self.last_request: None while unset
  last_query,         \* self.last_query: None while unset
  raised,             \* the exception request() ended with, None if none
  events,             \* history: POSTs issued, lines printed, widget updates
  responses,          \* history: every response received in this run
  queries             \* history: the query of every POST of this run

vars == <<pc, display_progress, args, n_pages, ii, pageInfo, prog,
          issues_and_or_prs, data, last_request, last_query, raised,
          events, responses, queries>>

\* ------------------------------------------------------------ helpers
Event(e, x, y) == [ev |-> e, a |-> x, b |-> y]

RECURSIVE Flatten(_)
Flatten(ss) == IF ss = <<>> THEN <<>> ELSE Head(ss) \o Flatten(Tail(ss))

RECURSIVE CountEv(_, _)
CountEv(es, e) ==
  IF es = <<>> THEN 0
  ELSE (IF Head(es).ev = e THEN 1 ELSE 0) + CountEv(Tail(es), e)

\* The responses that passed both checks of lines 131-134.
Succeeded(r) == r.status_code = 200 /\ r.errors = None

\* The number of nodes the remote has served so far in this run.
Served == Len(Flatten([i \in 1..Len(responses) |-> responses[i].nodes]))

\* ------------------------------------------------------------ the remote
\* A response of the endpoint to the POST of page i: a status code, the
\* "errors" key of the body (None: absent) and, in a successful body,
\* data.search: issueCount, pageInfo and at most n_per_page nodes.
\* issueCount is the number of matches, so no nodes come with a count of 0,
\* and it stays what the first page reported.  endCursor is the cursor of the
\* page's last node: null when the page has no node.  hasNextPage is free:
\* the remote may announce a next page after its last one, and the reverse.
FailureResponses ==
  { [status_code |-> s, errors |-> e, issueCount |-> 0,
     pageInfo |-> [endCursor |-> None, hasNextPage |-> FALSE], nodes |-> <<>>] :
      s \in {200, 401}, e \in {None, Some("NOT_FOUND")} } \
  { [status_code |-> 200, errors |-> None, issueCount |-> 0,
     pageInfo |-> [endCursor |-> None, hasNextPage |-> FALSE], nodes |-> <<>>] }

Counts(i) ==
  IF i = 0 \/ responses = <<>> THEN 0..MaxCount ELSE {responses[1].issueCount}

PageResponses(i, per_page) ==
  { [status_code |-> 200, errors |-> None, issueCount |-> c,
     pageInfo |-> [endCursor |-> cur, hasNextPage |-> h],
     nodes |-> [k \in 1..len |-> Node(Served + k)]] :
      c \in Counts(i), h \in BOOLEAN, len \in 0..per_page,
      cur \in {None, Some(TokenOf(i))} }

Responses(i, per_page) ==
  FailureResponses \cup
  { r \in PageResponses(i, per_page) :
      /\ r.issueCount = 0 => r.nodes = <<>>
      /\ r.pageInfo.endCursor = None <=> r.nodes = <<>> }

\* ------------------------------------------------------------ request()
Init ==
  /\ pc = "idle"
  /\ display_progress \in BOOLEAN
  /\ args = [n_pages |-> 0, n_per_page |-> 1]
  /\ n_pages = 0
  /\ ii = 0
  /\ pageInfo = None
  /\ prog = None
  /\ issues_and_or_prs = <<>>
  /\ data = None
  /\ last_request = None
  /\ last_query = None
  /\ raised = None
  /\ events = <<>>
  /\ responses = <<>>
  /\ queries = <<>>

\* Variant of Call: the list of line 115 is not emptied.
CallKeepsRecords ==
  /\ pc = "idle"
  /\ \E np \in 0..MaxNPages, pp \in 1..MaxPerPage :
       /\ args' = [n_pages |-> np, n_per_page |-> pp]
       /\ n_pages' = np
  /\ ii' = 0
  /\ pc' = "loop"
  /\ UNCHANGED <<display_progress, pageInfo, prog, data, last_request,
                 last_query, raised, events, responses, queries,
                 issues_and_or_prs>>

\* request(n_pages, n_per_page) is called: line 115.
Call ==
  /\ pc = "idle"
  /\ \E np \in 0..MaxNPages, pp \in 1..MaxPerPage :
       /\ args' = [n_pages |-> np, n_per_page |-> pp]
       /\ n_pages' = np
  /\ issues_and_or_prs' = <<>>
  /\ ii' = 0
  /\ pc' = "loop"
  /\ UNCHANGED <<display_progress, pageInfo, prog, data, last_request,
                 last_query, raised, events, responses, queries>>

\* Variants of LoopStop: the loop bound read again from the local n_pages
\* at every iteration; the bound short by one.
LoopStopReread == n_pages
LoopStopOffByOne == args.n_pages - 1
\* Another: the loop also ends once the expected number of pages is fetched.
LoopStopExpected ==
  IF pageInfo = None THEN args.n_pages
  ELSE IF n_pages < args.n_pages THEN n_pages ELSE args.n_pages

\* Line 116: range(n_pages) is evaluated once, when the loop is entered, so
\* the loop runs over the caller's n_pages whatever line 145 assigns later.
LoopStop == args.n_pages

\* '%s' % x: the text of x; None prints as "None".
FormatStr(x) == IF x = None THEN "None" ELSE x[1]

\* Variant of BuildQuery: from the third page on, the cursor of the query
\* before is sent again.
BuildQueryStale(i, per_page, pInfo) ==
  [first |-> per_page,
   query |-> SearchQuery,
   type  |-> "ISSUE",
   after |-> IF i = 0 THEN None
             ELSE IF i = 1 THEN Some(FormatStr(pInfo[1].endCursor))
             ELSE last_query[1].after]

\* Lines 117-129: the search arguments of page i's query document; the
\* after clause only when i # 0, with the endCursor of the local pageInfo.
BuildQuery(i, per_page, pInfo) ==
  [first |-> per_page,
   query |-> SearchQuery,
   type  |-> "ISSUE",
   after |-> IF i # 0 THEN Some(FormatStr(pInfo[1].endCursor)) ELSE None]

CodeMessage == "Query failed to run by returning code of"
ErrorMessage == "Query failed to run with error"

\* Variants of FetchError: the errors key never looked at; the errors key
\* looked at before the status code.
FetchErrorStatusOnly(r, q) ==
  IF r.status_code # 200
    THEN Some([cls |-> "Exception", msg |-> CodeMessage, query |-> Some(q)])
  ELSE None
FetchErrorSwapped(r, q) ==
  IF r.errors # None
    THEN Some([cls |-> "Exception", msg |-> ErrorMessage, query |-> Some(q)])
  ELSE IF r.status_code # 200
    THEN Some([cls |-> "Exception", msg |-> CodeMessage, query |-> Some(q)])
  ELSE None

\* Lines 131-134: the exception the two checks raise, the status check first.
FetchError(r, q) ==
  IF r.status_code # 200
    THEN Some([cls |-> "Exception", msg |-> CodeMessage, query |-> Some(q)])
  ELSE IF r.errors # None
    THEN Some([cls |-> "Exception", msg |-> ErrorMessage, query |-> Some(q)])
  ELSE None

\* Variant of ExpectedPages: floor division.
ExpectedPagesFloor(count, per_page) == count \div per_page

\* Line 145: int(np.ceil(issueCount / n_per_page)).
ExpectedPages(count, per_page) ==
  IF count % per_page = 0 THEN count \div per_page ELSE (count \div per_page) + 1

\* Variant of NoEntries: the check left out.
NoEntriesSkipped(i, r) == FALSE

\* Lines 139-140: the first page reports no match.
NoEntries(i, r) == i = 0 /\ r.issueCount = 0

\* Variants of Extend: the page's nodes put in front; the list replaced by
\* the page's nodes.
ExtendFront(acc, nodes) == nodes \o acc
ExtendReplace(acc, nodes) == nodes

\* Line 158: list.extend.
Extend(acc, nodes) == acc \o nodes

\* Variants of ShouldStop: the test inverted; the test made on the cursor.
ShouldStopInverted(pInfo) == pInfo.hasNextPage = TRUE
ShouldStopOnMissingCursor(pInfo) == pInfo.endCursor = None

\* Line 164: pageInfo['hasNextPage'] is False.
ShouldStop(pInfo) == pInfo.hasNextPage = FALSE

\* Lines 147-153: the widget as made, and line 163 on it: IntProgress is a
\* bounded int, an assignment above max is capped at max.
NewProg(max) ==
  [value |-> 0, min |-> 0, max |-> max, description |-> "Downloading:",
   bar_style |-> ""]
Bump(p) == [p EXCEPT !.value = IF p.value + 1 > p.max THEN p.max ELSE p.value + 1]

\* Variant of Notify: the widget is only touched when the loop stops.
NotifyAtEndOnly(value, stop) ==
  IF stop THEN <<Event("value", value, 0), Event("bar_style", 0, 0)>> ELSE <<>>

\* Lines 163-165: what the widget is told after a page: its new value, and
\* the 'success' style when the loop stops on this page.
Notify(value, stop) ==
  <<Event("value", value, 0)>> \o
  (IF stop THEN <<Event("bar_style", 0, 0)>> ELSE <<>>)

\* One iteration of the loop, lines 117-166, with the response r to its POST.
Iteration(r) ==
  LET i      == ii
      q      == BuildQuery(i, args.n_per_page, pageInfo)
      err    == FetchError(r, q)
      posted == Append(events, Event("post", i, 0))
      np     == IF i = 0 THEN ExpectedPages(r.issueCount, args.n_per_page)
                ELSE n_pages
      made   == IF i = 0 THEN NewProg(np) ELSE prog[1]
      found  == IF i = 0
                  THEN <<Event("print_found", r.issueCount, np)>> \o
                       (IF np > 1 /\ display_progress
                          THEN <<Event("display", np, 0)>> ELSE <<>>)
                  ELSE <<>>
      stop   == ShouldStop(r.pageInfo)
      bumped == Bump(made)
  IN
  /\ responses' = Append(responses, r)
  /\ queries' = Append(queries, q)
  /\ IF err # None THEN
       \* lines 132, 134: raise
       /\ raised' = err
       /\ events' = posted
       /\ pc' = "done"
       /\ UNCHANGED <<n_pages, ii, pageInfo, prog, issues_and_or_prs, data,
                      last_request, last_query>>
     ELSE IF NoEntries(i, r) THEN
       \* lines 135-143: no entries, an empty DataFrame, return
       /\ last_request' = Some(r)
       /\ events' = Append(posted, Event("print_none", 0, 0))
       /\ data' = Some(<<>>)
       /\ pc' = "done"
       /\ UNCHANGED <<n_pages, ii, pageInfo, prog, issues_and_or_prs,
                      last_query, raised>>
     ELSE
       \* lines 135-166
       /\ last_request' = Some(r)
       /\ n_pages' = np
       /\ issues_and_or_prs' = Extend(issues_and_or_prs, r.nodes)
       /\ pageInfo' = Some(r.pageInfo)
       /\ last_query' = Some(q)
       /\ prog' = Some(IF stop THEN [bumped EXCEPT !.bar_style = "success"]
                       ELSE bumped)
       /\ events' = posted \o found \o Notify(bumped.value, stop)
       /\ IF stop THEN pc' = "finalize" /\ ii' = i
                  ELSE pc' = "loop" /\ ii' = i + 1
       /\ UNCHANGED <<data, raised>>

Iterate ==
  /\ pc = "loop"
  /\ ii < LoopStop
  /\ \E r \in Responses(ii, args.n_per_page) : Iteration(r)
  /\ UNCHANGED <<display_progress, args>>

\* str.split(sep) on a text given as the sequence of its pieces: the
\* segments between the separators, empty ones included.
RECURSIVE SplitAcc(_, _, _)
SplitAcc(s, sep, cur) ==
  IF s = <<>> THEN <<cur>>
  ELSE IF Head(s) = sep THEN <<cur>> \o SplitAcc(Tail(s), sep, "")
  ELSE SplitAcc(Tail(s), sep, cur \o Head(s))
Split(s, sep) == SplitAcc(s, sep, "")

\* Variant of AuthorOf: a placeholder login for a missing author.
AuthorOfGhost(a) == IF a # None THEN Some(a[1].login) ELSE Some("ghost")

\* Line 172: lambda a: a['login'] if a is not None else a.
AuthorOf(a) == IF a # None THEN Some(a[1].login) ELSE a

\* Variant of OrgOf: 3 taken as a one-based index.
OrgOfOneBased(url) == Split(url, "/")[3]

\* Lines 173, 174: a.split('/')[3] and a.split('/')[4] (zero-indexed).
OrgOf(url) == Split(url, "/")[3 + 1]
RepoOf(url) == Split(url, "/")[4 + 1]

\* Lines 169-174 on the records rs: the DataFrame left in self.data and the
\* exception raised on the way, if any.  An empty DataFrame has no 'author'
\* column (KeyError); a url with too few segments has no [3] or [4]
\* (IndexError), which leaves the columns assigned before it.
Frame(rs) ==
  LET n       == Len(rs)
      authors == [k \in 1..n |-> [id |-> rs[k].id, author |-> AuthorOf(rs[k].author),
                                  url |-> rs[k].url]]
      orgs    == [k \in 1..n |-> [id |-> rs[k].id, author |-> AuthorOf(rs[k].author),
                                  url |-> rs[k].url, org |-> OrgOf(rs[k].url)]]
      repos   == [k \in 1..n |-> [id |-> rs[k].id, author |-> AuthorOf(rs[k].author),
                                  url |-> rs[k].url, org |-> OrgOf(rs[k].url),
                                  repo |-> RepoOf(rs[k].url)]]
      segs(k) == Len(Split(rs[k].url, "/"))
  IN
  IF n = 0
    THEN [data |-> <<>>,
          raised |-> Some([cls |-> "KeyError", msg |-> "author", query |-> None])]
  ELSE IF \E k \in 1..n : segs(k) < 4
    THEN [data |-> authors,
          raised |-> Some([cls |-> "IndexError", msg |-> "list index out of range",
                           query |-> None])]
  ELSE IF \E k \in 1..n : segs(k) < 5
    THEN [data |-> orgs,
          raised |-> Some([cls |-> "IndexError", msg |-> "list index out of range",
                           query |-> None])]
  ELSE [data |-> repos, raised |-> None]

\* Lines 168-174, after the loop ended by break or by running out.
Finalize ==
  /\ \/ pc = "finalize"
     \/ pc = "loop" /\ ~(ii < LoopStop)
  /\ data' = Some(Frame(issues_and_or_prs).data)
  /\ raised' = Frame(issues_and_or_prs).raised
  /\ pc' = "done"
  /\ UNCHANGED <<display_progress, args, n_pages, ii, pageInfo, prog,
                 issues_and_or_prs, last_request, last_query, events, responses,
                 queries>>

Next == Call \/ Iterate \/ Finalize

Spec == Init /\ [][Next]_vars

\* ------------------------------------------------------------ an object used before
\* What earlier calls of request() may have left in the attributes of the
\* object: nothing (a new object); the table of a run of two pages; the
\* records of a run whose second fetch failed; the empty table of a run
\* without matches.  The records of those runs are Node(101), Node(102).
OldToken == "Y3Vyc29yOjk="
OldPage(k, more) ==
  [status_code |-> 200, errors |-> None, issueCount |-> 2,
   pageInfo |-> [endCursor |-> Some(OldToken), hasNextPage |-> more],
   nodes |-> <<Node(100 + k)>>]
OldEmptyPage ==
  [status_code |-> 200, errors |-> None, issueCount |-> 0,
   pageInfo |-> [endCursor |-> None, hasNextPage |-> FALSE], nodes |-> <<>>]
EarlierRuns ==
  { [issues_and_or_prs |-> <<>>, data |-> None,
     last_request |-> None, last_query |-> None],
    [issues_and_or_prs |-> Extend(Extend(<<>>, <<Node(101)>>), <<Node(102)>>),
     data |-> Some(Frame(<<Node(101), Node(102)>>).data),
     last_request |-> Some(OldPage(2, FALSE)),
     last_query |-> Some(BuildQuery(1, 1, Some(OldPage(1, TRUE).pageInfo)))],
    [issues_and_or_prs |-> Extend(<<>>, <<Node(101)>>), data |-> None,
     last_request |-> Some(OldPage(1, TRUE)),
     last_query |-> Some(BuildQuery(0, 1, None))],
    [issues_and_or_prs |-> <<>>, data |-> Some(<<>>),
     last_request |-> Some(OldEmptyPage), last_query |-> None] }

InitRuns ==
  /\ pc = "idle"
  /\ display_progress \in BOOLEAN
  /\ args = [n_pages |-> 0, n_per_page |-> 1]
  /\ n_pages = 0
  /\ ii = 0
  /\ pageInfo = None
  /\ prog = None
  /\ \E old \in EarlierRuns :
       /\ issues_and_or_prs = old.issues_and_or_prs
       /\ data = old.data
       /\ last_request = old.last_request
       /\ last_query = old.last_query
  /\ raised = None
  /\ events = <<>>
  /\ responses = <<>>
  /\ queries = <<>>

SpecRuns == InitRuns /\ [][Next]_vars

\* ------------------------------------------------------------ lines 169-174 alone
\* The records lines 169-174 are tried on: with and without an author, and
\* with the url of the web page of an issue, the url of its REST resource,
\* and two urls that stop short.
HtmlUrl ==
  <<"https:", "/", "/", "github.com", "/", "ORG", "/", "REPO", "/", "issues", "/", "1">>
ApiUrl ==
  <<"https:", "/", "/", "api.github.com", "/", "repos", "/", "ORG", "/", "REPO", "/",
    "issues", "/", "1">>
HostUrl == <<"https:", "/", "/", "github.com">>
OrgUrl == <<"https:", "/", "/", "github.com", "/", "ORG">>
NormRecords ==
  { [author |-> a, url |-> u] :
      a \in {None, Some([login |-> "alice"])},
      u \in {HtmlUrl, ApiUrl, HostUrl, OrgUrl} }

\* request() right after a first page that carried the records rs and
\* announced no next page: the state in which line 169 is reached.
AfterOnePage(rs) ==
  LET n    == Len(rs)
      per  == IF n = 0 THEN 1 ELSE n
      resp == [status_code |-> 200, errors |-> None, issueCount |-> per,
               pageInfo |-> [endCursor |-> IF n = 0 THEN None ELSE Some(TokenOf(0)),
                             hasNextPage |-> FALSE],
               nodes |-> rs]
      q    == BuildQuery(0, per, None)
  IN
  /\ pc = "finalize"
  /\ args = [n_pages |-> 1, n_per_page |-> per]
  /\ n_pages = ExpectedPages(per, per)
  /\ ii = 0
  /\ pageInfo = Some(resp.pageInfo)
  /\ prog = Some([Bump(NewProg(1)) EXCEPT !.bar_style = "success"])
  /\ issues_and_or_prs = Extend(<<>>, rs)
  /\ data = None
  /\ last_request = Some(resp)
  /\ last_query = Some(q)
  /\ raised = None
  /\ events = <<Event("post", 0, 0), Event("print_found", per, 1)>> \o Notify(1, TRUE)
  /\ responses = <<resp>>
  /\ queries = <<q>>

InitNorm ==
  /\ display_progress \in BOOLEAN
  /\ \E n \in 0..MaxRows :
       \E f \in [1..n -> NormRecords] :
         AfterOnePage([k \in 1..n |-> [id |-> k, author |-> f[k].author,
                                       url |-> f[k].url]])

SpecNorm == InitNorm /\ [][Finalize]_vars

\* ------------------------------------------------------------ properties
\* What the histories say about the run so far.
Fetches == CountEv(events, "post")
NResp == Len(responses)
PageNodes(k) == IF Succeeded(responses[k]) THEN responses[k].nodes ELSE <<>>
\* The records of the successfully fetched pages 1..n, in fetch order.
Arrived(n) == Flatten([k \in 1..n |-> PageNodes(k)])
Ids(rows) == [k \in 1..Len(rows) |-> rows[k].id]
LastFailed == NResp > 0 /\ ~Succeeded(responses[NResp])
\* The run is over although its last page, of a search with matches,
\* announced a next one.
Exhausted ==
  /\ pc = "done"
  /\ NResp > 0
  /\ Succeeded(responses[NResp])
  /\ responses[1].issueCount > 0
  /\ responses[NResp].pageInfo.hasNextPage

\* C1: once a fetched page reports hasNextPage false, that page is the last
\* one fetched in the run (at any page index, also before the expected number
\* of pages), its records have been aggregated, and the loop has been left.
C1_StopAfterLastPage ==
  \A k \in 1..NResp :
    (Succeeded(responses[k]) /\ ~responses[k].pageInfo.hasNextPage) =>
      /\ k = NResp
      /\ Fetches = k
      /\ pc \in {"finalize", "done"}
      /\ LET n == Len(issues_and_or_prs)
             m == Len(responses[k].nodes)
         IN n >= m /\ SubSeq(issues_and_or_prs, n - m + 1, n) = responses[k].nodes

C1_Witness ==
  /\ pc = "done"
  /\ raised = None
  /\ NResp = 2
  /\ ~responses[2].pageInfo.hasNextPage
  /\ responses[2].nodes # <<>>
  /\ NResp < n_pages
  /\ NResp < args.n_pages

\* C2: a run never issues more POSTs than the n_pages the caller passed, and
\* a run that stops although its last page announced a next one has issued
\* exactly that many, whatever page count line 145 computed.
C2_AtMostMaxPages ==
  /\ Fetches <= args.n_pages
  /\ Exhausted => Fetches = args.n_pages

C2_Witness ==
  /\ Exhausted
  /\ args.n_pages >= 2
  /\ n_pages > args.n_pages

C4_ZeroCount ==
  (NResp > 0 /\ Succeeded(responses[1]) /\ responses[1].issueCount = 0) =>
    /\ pc = "done"
    /\ raised = None
    /\ data = Some(<<>>)
    /\ Fetches = 1
    /\ NResp = 1
    /\ issues_and_or_prs = <<>>

C4_Witness ==
  /\ NResp = 1
  /\ Succeeded(responses[1])
  /\ responses[1].issueCount = 0
  /\ responses[1].pageInfo.hasNextPage
  /\ args.n_pages >= 2
  /\ pc = "done"

\* C5: a response that fails either check ends the run: it is the last
\* response of the run, no POST follows it, and the run ends with the
\* exception raised to the caller.
C5_FailureIsTerminal ==
  \A k \in 1..NResp :
    ~Succeeded(responses[k]) =>
      /\ k = NResp
      /\ Fetches = k
      /\ pc = "done"
      /\ raised # None
      /\ raised[1].cls = "Exception"

C5_Witness ==
  /\ NResp = 2
  /\ ~Succeeded(responses[2])
  /\ NResp < args.n_pages
  /\ raised # None

\* C6 as stated: after a failed fetch nothing of the run is left for the
\* caller, neither aggregated records nor a table.
C6_Original ==
  LastFailed => issues_and_or_prs = <<>> /\ data = None

\* C6, amended: after a failed fetch on page k the run has built no table,
\* but the records of pages 0..k-1 are still in self.issues_and_or_prs; a
\* failure on the first fetch leaves no record.
C6_FailedRunKeepsRecords ==
  LastFailed =>
    /\ data = None
    /\ issues_and_or_prs = Arrived(NResp - 1)
    /\ NResp = 1 => issues_and_or_prs = <<>>

C6_Witness ==
  /\ LastFailed
  /\ NResp = 3
  /\ Len(issues_and_or_prs) >= 2

\* C7: a status other than 200 raises the status-code exception, also when
\* the body carries an errors list; a 200 with an errors list raises the
\* errors exception; the messages of the two differ.
C7_FailureKinds ==
  LastFailed =>
    LET r == responses[NResp] IN
    /\ raised # None
    /\ r.status_code # 200 => raised[1].msg = CodeMessage
    /\ (r.status_code = 200 /\ r.errors # None) => raised[1].msg = ErrorMessage
    /\ CodeMessage # ErrorMessage

C7_Witness ==
  /\ LastFailed
  /\ responses[NResp].status_code # 200
  /\ responses[NResp].errors # None
  /\ raised # None
  /\ raised[1].msg = CodeMessage

\* C8: the aggregated records are always the records of the successfully
\* fetched pages, page after page in fetch order and in their order within
\* the page, and the table of a run that returned has the same rows in the
\* same order.
C8_OrderPreserved ==
  /\ issues_and_or_prs = Arrived(NResp)
  /\ (pc = "done" /\ raised = None) =>
       /\ data # None
       /\ Ids(data[1]) = Ids(Arrived(NResp))
       /\ \A k \in 1..Len(data[1]) : data[1][k].url = Arrived(NResp)[k].url

C8_Witness ==
  /\ pc = "done"
  /\ raised = None
  /\ NResp = 3
  /\ \A k \in 1..3 : responses[k].nodes # <<>>
  /\ Len(data[1]) >= 4

\* The least n with n * per >= count.
CeilOf(count, per) ==
  CHOOSE n \in 0..count : n * per >= count /\ (n - 1) * per < count
Min(a, b) == IF a < b THEN a ELSE b
Max(a, b) == IF a < b THEN b ELSE a

\* Every response so far is what a consistent remote holding T > 0 matches
\* serves: full pages, then the rest, hasNextPage false on the last page only.
Consistent ==
  /\ NResp > 0
  /\ responses[1].issueCount > 0
  /\ LET T  == responses[1].issueCount
         ps == args.n_per_page
     IN \A k \in 1..NResp :
          /\ Succeeded(responses[k])
          /\ responses[k].issueCount = T
          /\ Len(responses[k].nodes) = Min(ps, Max(0, T - (k - 1) * ps))
          /\ responses[k].pageInfo.hasNextPage = (k * ps < T)

\* C9: against a consistent remote with T matches and n_pages at least
\* ceil(T / n_per_page), the run fetches exactly ceil(T / n_per_page) pages,
\* then leaves the loop, and returns a table of all T records.
C9_ConsistentRemote ==
  (Consistent /\ args.n_pages >= CeilOf(responses[1].issueCount, args.n_per_page)) =>
    LET T == responses[1].issueCount
        N == CeilOf(T, args.n_per_page)
    IN /\ Fetches <= N
       /\ pc = "loop" => Fetches < N
       /\ pc = "done" =>
            /\ Fetches = N
            /\ raised = None
            /\ data # None
            /\ Ids(data[1]) = [k \in 1..T |-> k]

C9_Witness ==
  /\ Consistent
  /\ pc = "done"
  /\ responses[1].issueCount = 5
  /\ args.n_per_page = 2
  /\ Fetches = 3
  /\ Len(data[1]) = 5

\* C10: when the first page reports T > 0 matches, the page count given to
\* the progress display (the printed line, the widget's max) is the least n
\* with n * n_per_page >= T, and it is given before the second POST.
C10_ExpectedPages ==
  (NResp > 0 /\ Succeeded(responses[1]) /\ responses[1].issueCount > 0) =>
    LET T  == responses[1].issueCount
        ps == args.n_per_page
        ok(n) == n * ps >= T /\ (n - 1) * ps < T
    IN /\ prog # None
       /\ ok(prog[1].max)
       /\ ok(n_pages)
       /\ \E j \in 1..Len(events) :
            /\ events[j] = Event("print_found", T, prog[1].max)
            /\ \A i \in 1..Len(events) :
                 (events[i].ev = "post" /\ events[i].a >= 1) => j < i

C10_Witness ==
  /\ NResp >= 2
  /\ Succeeded(responses[1])
  /\ responses[1].issueCount = 5
  /\ args.n_per_page = 2
  /\ prog # None
  /\ prog[1].max = 3

\* The pages aggregated so far: the responses that passed both checks, but
\* for a first page without matches.
Aggregated ==
  { k \in 1..NResp :
      Succeeded(responses[k]) /\ ~(k = 1 /\ responses[k].issueCount = 0) }
\* The run stopped on a page that announced no next page.
StoppedOnLastPage ==
  \E k \in Aggregated : ~responses[k].pageInfo.hasNextPage
Terminal == CountEv(events, "bar_style") + CountEv(events, "print_none")

\* C11 as stated, for a run ended by a failed fetch: the display has then
\* got exactly one terminal notification.
C11_Original ==
  (pc = "done" /\ LastFailed) => Terminal = 1

\* C11, amended: the widget's value is assigned once per aggregated page;
\* the only terminal notification is the 'success' style, given exactly when
\* the loop stops on a page with hasNextPage false; a run without matches
\* only prints its "Found no entries" line, and a run ended by a failed
\* fetch or by the n_pages bound tells the display nothing at its end.
C11_Notifications ==
  /\ CountEv(events, "value") = Cardinality(Aggregated)
  /\ CountEv(events, "bar_style") = (IF StoppedOnLastPage THEN 1 ELSE 0)
  /\ CountEv(events, "print_none") =
       (IF NResp > 0 /\ Succeeded(responses[1]) /\ responses[1].issueCount = 0
          THEN 1 ELSE 0)
  /\ (pc = "done" /\ (LastFailed \/ Exhausted)) => Terminal = 0

C11_Witness ==
  /\ Exhausted
  /\ NResp = 3
  /\ CountEv(events, "value") = 3
  /\ Terminal = 0

\* The text of the pieces of s put together.
RECURSIVE JoinPieces(_)
JoinPieces(s) == IF s = <<>> THEN "" ELSE Head(s) \o JoinPieces(Tail(s))
\* The place of the j-th "/" of url, and what stands between the n-th "/"
\* and the next one (or the end): the segment numbered n from zero, n >= 1.
SlashAt(url, j) ==
  CHOOSE p \in 1..Len(url) :
    url[p] = "/" /\ Cardinality({q \in 1..p : url[q] = "/"}) = j
Slashes(url) == Cardinality({q \in 1..Len(url) : url[q] = "/"})
Segment(url, n) ==
  LET from == SlashAt(url, n) + 1
      to   == IF Slashes(url) > n THEN SlashAt(url, n + 1) - 1 ELSE Len(url)
  IN JoinPieces(SubSeq(url, from, to))
\* url ends in /repos/ORG/REPO/issues/1.
IsReposUrl(url) ==
  /\ Len(url) >= 10
  /\ SubSeq(url, Len(url) - 9, Len(url)) =
       <<"/", "repos", "/", "ORG", "/", "REPO", "/", "issues", "/", "1">>
Table == data[1]

\* C12 as stated: a record of alice whose url ends in
\* /repos/ORG/REPO/issues/1 gets author alice, org ORG and repo REPO.
C12_Original ==
  (pc = "done" /\ raised = None) =>
    \A k \in 1..Len(Table) :
      (IsReposUrl(Table[k].url) /\ issues_and_or_prs[k].author = Some([login |-> "alice"])) =>
        /\ Table[k].author = Some("alice")
        /\ Table[k].org = "ORG"
        /\ Table[k].repo = "REPO"

\* C12, amended: org and repo are the segments 3 and 4, counted from zero,
\* of the url split on "/": https://github.com/ORG/REPO/issues/1 gives ORG
\* and REPO (and alice for the author alice), while
\* https://api.github.com/repos/ORG/REPO/issues/1 gives repos and ORG.
C12_Segments ==
  (pc = "done" /\ raised = None) =>
    \A k \in 1..Len(Table) :
      /\ Table[k].org = Segment(Table[k].url, 3)
      /\ Table[k].repo = Segment(Table[k].url, 4)
      /\ Table[k].url = HtmlUrl => Table[k].org = "ORG" /\ Table[k].repo = "REPO"
      /\ Table[k].url = ApiUrl => Table[k].org = "repos" /\ Table[k].repo = "ORG"
      /\ issues_and_or_prs[k].author = Some([login |-> "alice"]) =>
           Table[k].author = Some("alice")

C12_Witness ==
  /\ pc = "done"
  /\ raised = None
  /\ Len(Table) = 2
  /\ Table[1].url = HtmlUrl
  /\ Table[1].author = Some("alice")
  /\ Table[1].org = "ORG"
  /\ Table[1].repo = "REPO"
  /\ Table[2].url = ApiUrl
  /\ Table[2].org = "repos"

\* C13: a record without author gets an absent author and a record with an
\* author gets its login, whatever else is in the table, and a missing
\* author never makes lines 169-174 raise: they raise only on a table
\* without records or on a url that stops short.
C13_NullAuthor ==
  pc = "done" =>
    /\ data # None
    /\ Len(Table) = Len(issues_and_or_prs)
    /\ \A k \in 1..Len(Table) :
         Table[k].author =
           (IF issues_and_or_prs[k].author = None THEN None
            ELSE Some(issues_and_or_prs[k].author[1].login))
    /\ (/\ issues_and_or_prs # <<>>
        /\ \A k \in 1..Len(issues_and_or_prs) :
             issues_and_or_prs[k].url \in {HtmlUrl, ApiUrl}) => raised = None

C13_Witness ==
  /\ pc = "done"
  /\ raised = None
  /\ Len(Table) = 2
  /\ issues_and_or_prs[1].author = None
  /\ Table[1].author = None
  /\ Table[2].author = Some("alice")

\* C14: the query of the first page has no after clause, and the query of
\* every later page has the endCursor of the page received just before it,
\* also on an object whose last_query from an earlier run holds a cursor;
\* every query but the first follows a page that passed both checks.
C14_Cursors ==
  /\ Len(queries) = NResp
  /\ Len(queries) = Fetches
  /\ \A k \in 1..Len(queries) :
       /\ k = 1 => queries[k].after = None
       /\ k > 1 =>
            /\ Succeeded(responses[k - 1])
            /\ responses[k - 1].pageInfo.endCursor # None =>
                 queries[k].after = responses[k - 1].pageInfo.endCursor

C14_Witness ==
  /\ Len(queries) = 3
  /\ data # None
  /\ data[1] # <<>>
  /\ last_request # None
  /\ queries[2].after = Some(Tokens[1])
  /\ queries[3].after = Some(Tokens[2])
  /\ queries[1].after = None

\* C15 as stated: after a page that announces a next page without giving an
\* endCursor, no further POST is issued and, where n_pages left room for
\* one, the run ends with an exception.
C15_MissingCursorFails ==
  \A k \in Aggregated :
    (responses[k].pageInfo.hasNextPage /\ responses[k].pageInfo.endCursor = None) =>
      /\ Fetches = k
      /\ (pc = "done" /\ k < args.n_pages) =>
           raised # None /\ raised[1].cls = "Exception"

\* The run reached lines 169-174.
Finalized ==
  /\ pc = "done"
  /\ ~LastFailed
  /\ ~(NResp = 1 /\ Succeeded(responses[1]) /\ responses[1].issueCount = 0)

\* C16 as stated: lines 169-174 on an empty list of records end without
\* exception and leave an empty table.
C16_EmptyFinalize ==
  (Finalized /\ issues_and_or_prs = <<>>) => raised = None /\ data = Some(<<>>)

\* C17: the page count computed at line 145 never stops the loop: a run
\* leaves the loop only after a page with hasNextPage false or after the
\* n_pages POSTs the caller allowed, and while fewer were issued the next
\* iteration is enabled, also when more pages were aggregated than expected.
C17_PastExpectedPages ==
  /\ (pc \in {"finalize", "done"} /\ Aggregated # {} /\ ~LastFailed) =>
       \/ ~responses[NResp].pageInfo.hasNextPage
       \/ Fetches = args.n_pages
  /\ (pc = "loop" /\ Fetches < args.n_pages) => ENABLED Iterate

C17_Witness ==
  /\ pc = "loop"
  /\ prog # None
  /\ NResp = 2
  /\ NResp > prog[1].max
  /\ NResp > n_pages
  /\ Cardinality(Aggregated) = 2
  /\ ENABLED Iterate

\* C18: once request() is called, self.issues_and_or_prs holds the records
\* of the pages of this call and nothing else, whatever earlier calls left in
\* it: as many records as arrived, each one a node of a response of this
\* call.
C18_FreshAccumulator ==
  pc # "idle" =>
    /\ Len(issues_and_or_prs) = Len(Arrived(NResp))
    /\ \A k \in 1..Len(issues_and_or_prs) :
         /\ issues_and_or_prs[k].id <= 100
         /\ \E j \in 1..NResp :
              \E m \in 1..Len(responses[j].nodes) :
                responses[j].nodes[m] = issues_and_or_prs[k]

C18_Witness ==
  /\ pc = "done"
  /\ LastFailed
  /\ NResp = 2
  /\ data # None
  /\ data[1] # <<>>
  /\ data[1][1].id = 101
  /\ issues_and_or_prs # <<>>
  /\ issues_and_or_prs[1].id = 1

\* C19: a step in which a fetch fails leaves last_request, last_query, the
\* record list and data as they were, so what an earlier run left in data
\* (or its absence) outlives a failed run.
C19_FailedFetchFrame ==
  [][(/\ Len(responses') = Len(responses) + 1
      /\ ~Succeeded(responses'[Len(responses')]))
     => /\ last_request' = last_request
        /\ last_query' = last_query
        /\ issues_and_or_prs' = issues_and_or_prs
        /\ data' = data]_vars

C19_Witness ==
  /\ pc = "done"
  /\ LastFailed
  /\ NResp = 3
  /\ data # None
  /\ data[1] # <<>>
  /\ data[1][2].id = 102
  /\ last_request = Some(responses[2])
  /\ last_query = Some(queries[2])
=============================================================================
